---- MODULE Spec2Model ----
(***************************************************************************)
(* The EPUB exporter of ports/libcore/src/export/epub.rs: the Epub export  *)
(* session, its document templates and Exporter::save, run against a       *)
(* model of the file system, the resource-acquisition collaborator and the *)
(* archiver.                                                               *)
(*                                                                         *)
(* Paths are sequences of path components (format!("{}/{}", a, b) appends  *)
(* a component); file names are built by string concatenation exactly as   *)
(* the format! calls and the templates build them.  A rendered document is *)
(* a record of the values the template substitutes, with the template's    *)
(* for-loops unrolled into sequences.                                      *)
(*                                                                         *)
(* save is modelled statement by statement: every call it makes to the     *)
(* file system, to storage::from_section and to archive::doit is one step, *)
(* which the environment may fail.  The callers construct sessions for one *)
(* Section, save the session made last, and save again only after a save   *)
(* that succeeded.  storage::from_section and archive::doit are not part   *)
(* of this file and are modelled by their contract.                        *)
(***************************************************************************)
EXTENDS Integers, Sequences, FiniteSets, TLC

\* ------------------------------------------------------------ bounds
MaxPages == 2       \* longest page_list
MaxIndex == 1       \* largest Page.p
MaxSessions == 2    \* Epub values constructed in one behaviour
MaxClock == 1       \* Utc::now() reads an instant of 0..MaxClock

\* ------------------------------------------------------------ data model
VERSION == "VERSION"
operator == "manga-bot"

Platform == [name |-> "dmzj", url |-> "https://manhua.dmzj.com"]

Extensions == {"jpg", "png"}

MimeOf(extension) == IF extension = "jpg" THEN "image/jpeg" ELSE "image/png"

Pages == {[p |-> n, extension |-> e, mime |-> MimeOf(e)] :
            n \in 0..MaxIndex, e \in Extensions}

\* Page.p is the stem of the page's file names: the pages of one Section
\* have different indices, in any order.
PageLists ==
    {l \in UNION {[1..n -> Pages] : n \in 0..MaxPages} :
        \A a, b \in DOMAIN l : a # b => l[a].p # l[b].p}

SectionNames == {"Demo Ch1"}

Sections == [name : SectionNames, page_list : PageLists]

\* The output directory the callers pass to save.
OutputDirs == {<< "manga_res", "outputs" >>}

\* Uuid::new_v4(): the n-th draw of the random generator, a token of its own
\* (a collision of two version-4 UUIDs is taken as impossible).
Uuid_new_v4(n) == "uuid-" \o ToString(n)

Epub_new(platform, section, n) ==
    [platform |-> platform, section |-> section, uuid |-> Uuid_new_v4(n)]

\* ------------------------------------------------------------ templates
TeraPanic == [kind |-> "panic"]

render_start_xhtml(self) ==
    [kind |-> "start_xhtml",
     name |-> self.section.name,
     platform_url |-> self.platform.url,
     platform_name |-> self.platform.name,
     operator |-> operator,
     version |-> VERSION]

render_page_html(self, name, src) ==
    [kind |-> "page_html", name |-> name, img_src |-> src]

Item(href, id, media_type) == [href |-> href, id |-> id, media_type |-> media_type]

\* The manifest loop run from the last page to the first.
ManifestLoopReversed(plist) ==
    [k \in 1..(2 * Len(plist)) |->
        LET p == plist[Len(plist) + 1 - ((k + 1) \div 2)] IN
        IF k % 2 = 1
        THEN Item(ToString(p.p) \o ".html", "page" \o ToString(p.p),
                  "application/xhtml+xml")
        ELSE Item(ToString(p.p) \o "." \o p.extension, "img" \o ToString(p.p),
                  p.mime)]

\* {% for p in plist %} of the manifest: two items per page.
RECURSIVE ManifestLoop(_)
ManifestLoop(plist) ==
    IF plist = <<>> THEN <<>>
    ELSE LET p == Head(plist) IN
         << Item(ToString(p.p) \o ".html", "page" \o ToString(p.p),
                 "application/xhtml+xml"),
            Item(ToString(p.p) \o "." \o p.extension, "img" \o ToString(p.p),
                 p.mime) >>
         \o ManifestLoop(Tail(plist))

\* plist.0 is the first element of the list (TLA+ sequences start at 1).
CoverItem(plist) ==
    Item("cover." \o plist[1].extension, "cover", plist[1].mime)

\* {% for p in plist %} of the spine.
SpineLoop(plist) == [k \in 1..Len(plist) |-> "page" \o ToString(plist[k].p)]

\* Tera fails on plist.0 of an empty list, and the unwrap panics.
render_metadata_opf(self, date_time) ==
    LET plist == self.section.page_list IN
    IF plist = <<>> THEN TeraPanic
    ELSE [kind |-> "opf",
          title |-> self.section.name,
          uuid |-> self.uuid,
          version |-> VERSION,
          date_time |-> date_time,
          cover_meta |-> "cover",
          manifest |-> << Item("toc.ncx", "ncx", "application/x-dtbncx+xml"),
                          Item("stylesheet.css", "id33", "text/css"),
                          Item("start.xhtml", "start", "application/xhtml+xml") >>
                       \o ManifestLoop(plist)
                       \o << CoverItem(plist) >>,
          spine |-> << "start" >> \o SpineLoop(plist)]

render_stylesheet(self) == [kind |-> "stylesheet"]

NavPoint(id, playOrder, label, src) ==
    [id |-> id, playOrder |-> playOrder, label |-> label, src |-> src]

\* The root label is the fixed text of the template ("about").
RootNavPoint == NavPoint("navPoint-00", "0", "about", "start.xhtml")

\* The navigation loop with the loop counter as play order.
NavLoopByPosition(plist) ==
    [k \in 1..Len(plist) |->
        NavPoint("navPoint-" \o ToString(plist[k].p), ToString(k),
                 ToString(plist[k].p) \o "P", ToString(plist[k].p) \o ".html")]

\* {% for p in plist %} of the navigation map.
NavLoop(plist) ==
    [k \in 1..Len(plist) |->
        NavPoint("navPoint-" \o ToString(plist[k].p), ToString(plist[k].p),
                 ToString(plist[k].p) \o "P", ToString(plist[k].p) \o ".html")]

\* A navigation document that draws an identifier of its own.
TocUidOfItsOwn(self) == Uuid_new_v4(0)

\* ctx.insert("uuid", &self.uuid) of render_toc_ncx.
TocUid(self) == self.uuid

render_toc_ncx(self) ==
    [kind |-> "ncx",
     uid |-> TocUid(self),
     name |-> self.section.name,
     navMap |-> << RootNavPoint >> \o NavLoop(self.section.page_list)]

render_container_xml(self) == [kind |-> "container", full_path |-> "metadata.opf"]

MimetypeBytes == [kind |-> "mimetype", text |-> "application/epub+zip"]

\* ------------------------------------------------------------ paths
CacheDir(self) == << "manga_res", self.section.name, ".cache" >>

MetaDir(self) == Append(CacheDir(self), "META-INF")

ImgName(page) == ToString(page.p) \o "." \o page.extension

PageHtmlPath(self, page) == Append(CacheDir(self), ToString(page.p) \o ".html")

OriginPath(self, page) ==
    << "manga_res", self.section.name, "origins", ImgName(page) >>

ImgPath(self, page) == Append(CacheDir(self), ImgName(page))

CoverPath(self, page) == Append(CacheDir(self), "cover." \o page.extension)

\* The package placed in the cache directory.
DstFileInCache(self, dir) == Append(CacheDir(self), self.section.name \o ".epub")

\* format!("{}/{}.epub", &output_dir, &self.section.name)
DstFile(self, output_dir) == Append(output_dir, self.section.name \o ".epub")

\* ------------------------------------------------------------ file system
Prefixes(path) == {SubSeq(path, 1, k) : k \in 1..Len(path)}

Parent(path) == SubSeq(path, 1, Len(path) - 1)

EmptyFile == [kind |-> "empty"]

\* std::fs::create_dir in its place: an existing directory is an error.
create_dir_ok(f, path) == path \notin f.dirs /\ Parent(path) \in f.dirs

\* std::fs::create_dir_all: succeeds when the directory is already there.
create_dir_all_ok(f, path) == Prefixes(path) \cap DOMAIN f.files = {}

create_dir_all(f, path) == [f EXCEPT !.dirs = @ \cup Prefixes(path)]

\* File::create: creates or truncates; the parent directory must exist.
File_create_ok(f, path) == Parent(path) \in f.dirs /\ path \notin f.dirs

File_create(f, path) == [f EXCEPT !.files = (path :> EmptyFile) @@ @]

write_all(f, path, bytes) == [f EXCEPT !.files = (path :> bytes) @@ @]

\* std::fs::copy: the source must exist; the destination is overwritten.
fs_copy_ok(f, src, dst) ==
    src \in DOMAIN f.files /\ Parent(dst) \in f.dirs /\ dst \notin f.dirs

fs_copy(f, src, dst) == [f EXCEPT !.files = (dst :> f.files[src]) @@ @]

\* storage::from_section(..)?.finish(): on success every page's image is at
\* its origin path.
ImageBytes(page) == [kind |-> "image", of |-> ImgName(page)]

storage_from_section(f, self) ==
    LET plist == self.section.page_list
        paths == {OriginPath(self, plist[k]) : k \in 1..Len(plist)}
        bytes == [q \in paths |->
                    ImageBytes(CHOOSE pg \in Pages : OriginPath(self, pg) = q)]
    IN [dirs |-> f.dirs \cup Prefixes(<< "manga_res", self.section.name, "origins" >>),
        files |-> bytes @@ f.files]

\* archive::doit(src, dst): packs the files below src into one file at dst.
Under(dir, path) == Len(path) > Len(dir) /\ SubSeq(path, 1, Len(dir)) = dir

archive_doit_ok(f, src, dst) == src \in f.dirs /\ Parent(dst) \in f.dirs

archive_doit(f, src, dst) ==
    LET inside == {q \in DOMAIN f.files : Under(src, q)} IN
    [f EXCEPT !.files =
        (dst :> [kind |-> "epub", tree |-> [q \in inside |-> f.files[q]]]) @@ @]

\* ------------------------------------------------------------ results
NoResult == [ok |-> FALSE, kind |-> "none", cause |-> "none", value |-> <<>>]

Ok(path) == [ok |-> TRUE, kind |-> "Ok", cause |-> "none", value |-> path]

Err(kind, cause) == [ok |-> FALSE, kind |-> kind, cause |-> cause, value |-> <<>>]

\* One call to a collaborator (file system, acquisition, archiver), as save
\* made it: page is the position in page_list of the loop iteration that
\* made the call, 0 outside the loop.
Event(op, src, dst, page) ==
    [op |-> op, src |-> src, dst |-> dst, page |-> page, ok |-> TRUE]

Failed(ev) == [ev EXCEPT !.ok = FALSE]

\* ------------------------------------------------------------ state
VARIABLES
    sessions,     \* the Epub values constructed so far
    entropy,      \* draws made from the random generator
    fs,           \* the file system: [dirs, files]
    pc,           \* the statement of save about to run
    cur,          \* the session save runs on
    output_dir,   \* save's argument
    i,            \* position of the for loop in page_list
    result,       \* what save returned
    log,          \* the collaborator calls of the running save, in order
    prev          \* the file tree the running save started from, less the
                  \* identifiers and timestamps; valid: a successful save left it

vars == << sessions, entropy, fs, pc, cur, output_dir, i, result, log, prev >>

this == sessions[cur]

page_list == this.section.page_list

page == page_list[i]

\* A document without the per-session identifier and the timestamp.
RECURSIVE Strip(_)
Strip(doc) ==
    IF doc.kind = "opf" THEN [doc EXCEPT !.uuid = "", !.date_time = 0]
    ELSE IF doc.kind = "ncx" THEN [doc EXCEPT !.uid = ""]
    ELSE IF doc.kind = "epub"
         THEN [doc EXCEPT !.tree = [q \in DOMAIN doc.tree |-> Strip(doc.tree[q])]]
    ELSE doc

StripAll(files) == [q \in DOMAIN files |-> Strip(files[q])]

NoPrev == [valid |-> FALSE, output_dir |-> <<>>, dirs |-> {}, files |-> <<>>]

Init ==
    /\ \E s \in Sections : sessions = << Epub_new(Platform, s, 1) >>
    /\ entropy = 1
    /\ fs = [dirs |-> {<<>>}, files |-> <<>>]
    /\ pc = "idle"
    /\ cur = 1
    /\ output_dir = <<>>
    /\ i = 1
    /\ result = NoResult
    /\ log = <<>>
    /\ prev = NoPrev

\* ------------------------------------------------------------ callers
\* Epub::new for the Section of this behaviour.
NewSession ==
    /\ pc \in {"idle", "returned"}
    /\ Len(sessions) < MaxSessions
    /\ sessions' = Append(sessions, Epub_new(Platform, sessions[1].section, entropy + 1))
    /\ entropy' = entropy + 1
    /\ UNCHANGED << fs, pc, cur, output_dir, i, result, log, prev >>

\* A caller invokes save(output_dir) on the session it made last: the first save,
\* or one more after a save that succeeded (a caller whose save failed stops).
SaveCall ==
    /\ pc = "idle" \/ (pc = "returned" /\ result.ok)
    /\ cur' = Len(sessions)
    /\ output_dir' \in OutputDirs
    /\ prev' = [valid |-> pc = "returned", output_dir |-> output_dir,
                dirs |-> fs.dirs, files |-> StripAll(fs.files)]
    /\ pc' = "acquire"
    /\ i' = 1
    /\ result' = NoResult
    /\ log' = <<>>
    /\ UNCHANGED << sessions, entropy, fs >>

\* ------------------------------------------------------------ save
\* The error dropped and the next statement run.
OnErrorIgnored(next, err) == [pc |-> next, result |-> NoResult]

\* Where a failed call of save goes: the ? operator returns the error.
OnError(next, err) == [pc |-> "returned", result |-> err]

\* One statement of save that calls a collaborator and applies ? to its
\* result.  The call succeeds only if the state allows it (permitted); the
\* environment may fail it all the same (cause "Other": a full disk, a
\* permission, the network).  On a failure save returns the error.
Step(here, next, nextI, permitted, newFs, ev, kind, cause) ==
    /\ pc = here
    /\ \/ /\ permitted
          /\ fs' = newFs
          /\ log' = Append(log, ev)
          /\ pc' = next
          /\ i' = nextI
          /\ UNCHANGED result
       \/ LET e == OnError(next, Err(kind, IF permitted THEN "Other" ELSE cause)) IN
          /\ fs' = fs
          /\ log' = Append(log, Failed(ev))
          /\ pc' = e.pc
          /\ result' = e.result
          /\ UNCHANGED i
    /\ UNCHANGED << sessions, entropy, cur, output_dir, prev >>

CreateStep(here, next, path) ==
    Step(here, next, i, File_create_ok(fs, path), File_create(fs, path),
         Event("create", <<>>, path, 0), "FilesystemFailure", "NotFound")

WriteStep(here, next, path, bytes) ==
    Step(here, next, i, TRUE, write_all(fs, path, bytes),
         Event("write", <<>>, path, 0), "FilesystemFailure", "Other")

MkdirStep(here, next, path) ==
    Step(here, next, i, create_dir_all_ok(fs, path), create_dir_all(fs, path),
         Event("create_dir_all", <<>>, path, 0), "FilesystemFailure", "AlreadyExists")

\* for page in &self.section.page_list: the statement after the loop head.
LoopHead(k) == IF k <= Len(page_list) THEN "page_create" ELSE "metadata_create"

\* The acquisition without the ?: its error is dropped.
SaveAcquireUnchecked ==
    /\ pc = "acquire"
    /\ pc' = "mkdir_output"
    /\ \/ /\ fs' = storage_from_section(fs, this)
          /\ log' = Append(log, Event("from_section", <<>>, <<>>, 0))
       \/ /\ fs' = fs
          /\ log' = Append(log, Failed(Event("from_section", <<>>, <<>>, 0)))
    /\ UNCHANGED << sessions, entropy, cur, output_dir, i, result, prev >>

\* storage::from_section(&mut self.section)?.finish();
SaveAcquire ==
    Step("acquire", "mkdir_output", i, TRUE, storage_from_section(fs, this),
         Event("from_section", <<>>, <<>>, 0), "AcquisitionFailure", "Other")

\* std::fs::create_dir_all(output_dir)?;
SaveMkdirOutput == MkdirStep("mkdir_output", "mkdir_cache", output_dir)

\* std::fs::create_dir_all(&cache_dir)?;
SaveMkdirCache == MkdirStep("mkdir_cache", "mkdir_meta", CacheDir(this))

\* std::fs::create_dir_all(&meta_dir)?;
SaveMkdirMeta == MkdirStep("mkdir_meta", "start_create", MetaDir(this))

SaveStartCreate ==
    CreateStep("start_create", "start_write", Append(CacheDir(this), "start.xhtml"))

SaveStartWrite ==
    Step("start_write", LoopHead(1), 1, TRUE,
         write_all(fs, Append(CacheDir(this), "start.xhtml"), render_start_xhtml(this)),
         Event("write", <<>>, Append(CacheDir(this), "start.xhtml"), 0),
         "FilesystemFailure", "Other")

SavePageCreate ==
    /\ pc = "page_create"
    /\ Step("page_create", "page_write", i,
            File_create_ok(fs, PageHtmlPath(this, page)),
            File_create(fs, PageHtmlPath(this, page)),
            Event("create", <<>>, PageHtmlPath(this, page), i),
            "FilesystemFailure", "NotFound")

SavePageWrite ==
    /\ pc = "page_write"
    /\ Step("page_write", "page_copy", i, TRUE,
            write_all(fs, PageHtmlPath(this, page),
                      render_page_html(this, ToString(page.p), ImgName(page))),
            Event("write", <<>>, PageHtmlPath(this, page), i),
            "FilesystemFailure", "Other")

\* Whether the loop body copies the page's image to the cover as well.
IsCoverPage(pg) == pg.p = 0

SavePageCopy ==
    /\ pc = "page_copy"
    /\ Step("page_copy",
            IF IsCoverPage(page) THEN "page_cover" ELSE LoopHead(i + 1),
            IF IsCoverPage(page) THEN i ELSE i + 1,
            fs_copy_ok(fs, OriginPath(this, page), ImgPath(this, page)),
            fs_copy(fs, OriginPath(this, page), ImgPath(this, page)),
            Event("copy", OriginPath(this, page), ImgPath(this, page), i),
            "FilesystemFailure", "NotFound")

SavePageCover ==
    /\ pc = "page_cover"
    /\ Step("page_cover", LoopHead(i + 1), i + 1,
            fs_copy_ok(fs, OriginPath(this, page), CoverPath(this, page)),
            fs_copy(fs, OriginPath(this, page), CoverPath(this, page)),
            Event("copy", OriginPath(this, page), CoverPath(this, page), i),
            "FilesystemFailure", "NotFound")

SaveMetadataCreate ==
    CreateStep("metadata_create", "metadata_write", Append(CacheDir(this), "metadata.opf"))

\* metadata.write_all(self.render_metadata_opf().as_bytes())?: the render
\* reads the clock, and panics on an empty page_list.
SaveMetadataWrite ==
    /\ pc = "metadata_write"
    /\ \E t \in 0..MaxClock :
          LET doc == render_metadata_opf(this, t) IN
          /\ IF doc = TeraPanic
             THEN /\ pc' = "panicked"
                  /\ UNCHANGED << fs, log, i, result >>
             ELSE \/ /\ fs' = write_all(fs, Append(CacheDir(this), "metadata.opf"), doc)
                     /\ log' = Append(log, Event("write", <<>>,
                                        Append(CacheDir(this), "metadata.opf"), 0))
                     /\ pc' = "mimetype_create"
                     /\ UNCHANGED << i, result >>
                  \/ LET e == OnError("mimetype_create", Err("FilesystemFailure", "Other")) IN
                     /\ log' = Append(log, Failed(Event("write", <<>>,
                                        Append(CacheDir(this), "metadata.opf"), 0)))
                     /\ pc' = e.pc
                     /\ result' = e.result
                     /\ UNCHANGED << fs, i >>
    /\ UNCHANGED << sessions, entropy, cur, output_dir, prev >>

SaveMimetypeCreate ==
    CreateStep("mimetype_create", "mimetype_write", Append(CacheDir(this), "mimetype"))

SaveMimetypeWrite ==
    WriteStep("mimetype_write", "stylesheet_create",
              Append(CacheDir(this), "mimetype"), MimetypeBytes)

SaveStylesheetCreate ==
    CreateStep("stylesheet_create", "stylesheet_write",
               Append(CacheDir(this), "stylesheet.css"))

SaveStylesheetWrite ==
    WriteStep("stylesheet_write", "toc_create",
              Append(CacheDir(this), "stylesheet.css"), render_stylesheet(this))

SaveTocCreate ==
    CreateStep("toc_create", "toc_write", Append(CacheDir(this), "toc.ncx"))

\* The archiver invoked right after the navigation document.
SaveTocWriteThenArchive ==
    WriteStep("toc_write", "archive",
              Append(CacheDir(this), "toc.ncx"), render_toc_ncx(this))

SaveTocWrite ==
    WriteStep("toc_write", "container_create",
              Append(CacheDir(this), "toc.ncx"), render_toc_ncx(this))

SaveContainerCreate ==
    CreateStep("container_create", "container_write",
               Append(MetaDir(this), "container.xml"))

SaveContainerWrite ==
    WriteStep("container_write", "archive",
              Append(MetaDir(this), "container.xml"), render_container_xml(this))

\* archive::doit(&cache_dir, &dst_file)?;
ArchiveSrc(self) == CacheDir(self)

SaveArchive ==
    Step("archive", "return", i,
         archive_doit_ok(fs, ArchiveSrc(this), DstFile(this, output_dir)),
         archive_doit(fs, ArchiveSrc(this), DstFile(this, output_dir)),
         Event("archive", ArchiveSrc(this), DstFile(this, output_dir), 0),
         "ArchiveFailure", "NotFound")

\* Ok(dst_file)
SaveReturn ==
    /\ pc = "return"
    /\ pc' = "returned"
    /\ result' = Ok(DstFile(this, output_dir))
    /\ UNCHANGED << sessions, entropy, fs, cur, output_dir, i, log, prev >>

Next ==
    \/ NewSession
    \/ SaveCall
    \/ SaveAcquire
    \/ SaveMkdirOutput
    \/ SaveMkdirCache
    \/ SaveMkdirMeta
    \/ SaveStartCreate
    \/ SaveStartWrite
    \/ SavePageCreate
    \/ SavePageWrite
    \/ SavePageCopy
    \/ SavePageCover
    \/ SaveMetadataCreate
    \/ SaveMetadataWrite
    \/ SaveMimetypeCreate
    \/ SaveMimetypeWrite
    \/ SaveStylesheetCreate
    \/ SaveStylesheetWrite
    \/ SaveTocCreate
    \/ SaveTocWrite
    \/ SaveContainerCreate
    \/ SaveContainerWrite
    \/ SaveArchive
    \/ SaveReturn

Spec == Init /\ [][Next]_vars

\* ------------------------------------------------------------ properties
Cache(name) == << "manga_res", this.section.name, ".cache", name >>

OnDisk(path, kind) == path \in DOMAIN fs.files /\ fs.files[path].kind = kind

PageIds == {"page" \o ToString(n) : n \in 0..MaxIndex}

ImgIds == {"img" \o ToString(n) : n \in 0..MaxIndex}

IsPageItem(it) == it.id \in PageIds

IsImgItem(it) == it.id \in ImgIds

IsFixedItem(it) == it.id \in {"ncx", "id33", "start", "cover"}

\* Positions of the log holding a successful call op on dst.
Done(op, dst) == {k \in DOMAIN log : log[k].op = op /\ log[k].dst = dst /\ log[k].ok}

ManifestListsPages(m, pl) ==
    LET docs == SelectSeq(m.manifest, IsPageItem)
        imgs == SelectSeq(m.manifest, IsImgItem)
        rest == SelectSeq(m.manifest, IsFixedItem)
    IN /\ Len(m.manifest) = 2 * Len(pl) + 4
       /\ Len(docs) = Len(pl)
       /\ \A k \in DOMAIN pl :
             /\ docs[k].href = ToString(pl[k].p) \o ".html"
             /\ docs[k].id = "page" \o ToString(pl[k].p)
       /\ Len(imgs) = Len(pl)
       /\ \A k \in DOMAIN pl :
             /\ imgs[k].href = ToString(pl[k].p) \o "." \o pl[k].extension
             /\ imgs[k].id = "img" \o ToString(pl[k].p)
       /\ [k \in DOMAIN rest |-> rest[k].id] = << "ncx", "id33", "start", "cover" >>
       /\ [k \in 1..3 |-> rest[k].href] = << "toc.ncx", "stylesheet.css", "start.xhtml" >>
       /\ m.manifest[Len(m.manifest)].id = "cover"
       /\ Len(m.spine) = Len(pl) + 1
       /\ m.spine[1] = "start"
       /\ \A k \in DOMAIN pl : m.spine[k + 1] = "page" \o ToString(pl[k].p)

\* C1: for a Section of N >= 1 pages the manifest render_metadata_opf renders
\* (as rendered for the session in use, and as save wrote it to metadata.opf)
\* holds exactly N page-document items and N image items and the spine holds
\* the start itemref and then N page itemrefs, each in page_list order, beside
\* the fixed ncx, stylesheet, start and cover items.
C1_ManifestListsEveryPage ==
    /\ Len(page_list) >= 1
          => ManifestListsPages(render_metadata_opf(this, 0), page_list)
    /\ OnDisk(Cache("metadata.opf"), "opf")
          => ManifestListsPages(fs.files[Cache("metadata.opf")], page_list)

C1_Witness ==
    /\ OnDisk(Cache("metadata.opf"), "opf")
    /\ Len(page_list) >= 2
    /\ page_list[1].p > page_list[2].p

\* C2: in one session the dc:identifier of the manifest and the dtb:uid of the
\* navigation document are the session's uuid, in every render and in the
\* files the running save has written, and two sessions for the same Section
\* carry different uuids.
C2_OneIdentifierPerSession ==
    /\ \A k \in DOMAIN sessions :
          LET opf == render_metadata_opf(sessions[k], 0)
              ncx == render_toc_ncx(sessions[k])
          IN /\ ncx.uid = sessions[k].uuid
             /\ opf # TeraPanic => opf.uuid = ncx.uid
    /\ Done("write", Cache("metadata.opf")) # {}
          => fs.files[Cache("metadata.opf")].uuid = this.uuid
    /\ Done("write", Cache("toc.ncx")) # {}
          => /\ fs.files[Cache("toc.ncx")].uid = this.uuid
             /\ fs.files[Cache("toc.ncx")].uid = fs.files[Cache("metadata.opf")].uuid
    /\ \A j, k \in DOMAIN sessions :
          (j # k /\ sessions[j].section = sessions[k].section)
             => sessions[j].uuid # sessions[k].uuid

C2_Witness ==
    /\ Len(sessions) >= 2
    /\ cur = 2
    /\ prev.valid
    /\ Done("write", Cache("toc.ncx")) # {}

\* C3: with at least one page, the cover item of the manifest written by save
\* has the media type and the extension of the page whose index is 0, wherever
\* that page stands in page_list.
C3_CoverIsPageZero ==
    OnDisk(Cache("metadata.opf"), "opf")
       => LET m == fs.files[Cache("metadata.opf")].manifest
              cover == m[Len(m)]
          IN \A k \in DOMAIN page_list :
                page_list[k].p = 0
                   => /\ cover.media_type = page_list[k].mime
                      /\ cover.href = "cover." \o page_list[k].extension

\* C4: when the acquisition fails, save returns an AcquisitionFailure, has
\* called nothing else (no file-system call, no archiver), and the file tree
\* is the one the call started from.
C4_AcquisitionFailureAborts ==
    (log # <<>> /\ log[1].op = "from_section" /\ ~log[1].ok)
       => /\ pc = "returned"
          /\ ~result.ok
          /\ result.kind = "AcquisitionFailure"
          /\ Len(log) = 1
          /\ fs.dirs = prev.dirs
          /\ StripAll(fs.files) = prev.files
          /\ (~prev.valid => fs.files = <<>>)

C4_Witness ==
    /\ log # <<>>
    /\ ~log[1].ok
    /\ log[1].op = "from_section"
    /\ Len(page_list) >= 2
    /\ prev.valid

\* C5: a save that starts from the file tree a successful save left fails only
\* if the environment fails one of its calls (never because of what the first
\* save left), and when it succeeds with the same output directory it leaves
\* the same directories, the same set of paths and the same contents, apart
\* from the identifier and the timestamp.
C5_SecondSaveSameTree ==
    prev.valid
       => /\ pc # "panicked"
          /\ (pc = "returned" /\ ~result.ok) => result.cause = "Other"
          /\ (pc = "returned" /\ result.ok /\ output_dir = prev.output_dir)
                => /\ fs.dirs = prev.dirs
                   /\ DOMAIN fs.files = DOMAIN prev.files
                   /\ StripAll(fs.files) = prev.files

C5_Witness ==
    /\ prev.valid
    /\ pc = "returned"
    /\ result.ok
    /\ output_dir = prev.output_dir
    /\ Len(page_list) >= 2

\* C6: a successful save returns {output_directory}/{section.name}.epub, and it
\* has invoked the archiver exactly once, with the Section's cache directory as
\* source and that path as destination.
C6_ReturnsPackagePath ==
    (pc = "returned" /\ result.ok)
       => LET dst == Append(output_dir, this.section.name \o ".epub")
              archived == {k \in DOMAIN log : log[k].op = "archive"}
          IN /\ result.value = dst
             /\ Cardinality(archived) = 1
             /\ \A k \in archived :
                   /\ log[k].ok
                   /\ log[k].src = << "manga_res", this.section.name, ".cache" >>
                   /\ log[k].dst = dst
             /\ OnDisk(dst, "epub")

C6_Witness == pc = "returned" /\ result.ok /\ ~prev.valid

\* C7: when save invokes the archiver, every href of the manifest it wrote
\* names a file this save has written or copied into the cache directory
\* (stated for the Sections that have a page of index 0, the cover source).
C7_ManifestHrefsWritten ==
    (/\ pc = "archive"
     /\ OnDisk(Cache("metadata.opf"), "opf")
     /\ \E n \in DOMAIN page_list : page_list[n].p = 0)
       => LET m == fs.files[Cache("metadata.opf")].manifest IN
          \A k \in DOMAIN m :
             Done("write", Cache(m[k].href)) \cup Done("copy", Cache(m[k].href)) # {}

IsFsCall(e) == e.op \in {"create_dir_all", "create", "write", "copy"}

Before(k, op, dst) == \E j \in Done(op, dst) : j < k

\* C8: in every save the acquisition completes before any directory is created
\* or file written; start.xhtml is written before any page artifact; the pages
\* are processed in page_list order, none skipped, each page's document written
\* before its image is copied; the archiver is invoked only after metadata.opf,
\* mimetype, stylesheet.css, toc.ncx and container.xml are written; and the path
\* is returned only after the archiver has returned.  Stated of the call save
\* made last, in every state: that is every call, at the time it is made.
C8_StepsInOrder ==
    /\ log # <<>> =>
          LET k == Len(log)
              last == log[k]
          IN /\ (IsFsCall(last) \/ last.op = "archive")
                   => (k > 1 /\ log[1].op = "from_section" /\ log[1].ok)
             /\ last.page > 0
                   => /\ Before(k, "write", Cache("start.xhtml"))
                      /\ last.page <= Len(page_list)
                      /\ \A j \in 1..(k - 1) : log[j].page <= last.page
                      /\ \A n \in 1..(last.page - 1) :
                            Before(k, "copy", Cache(ToString(page_list[n].p) \o "."
                                                      \o page_list[n].extension))
                      /\ last.op = "copy"
                            => \E j \in 1..(k - 1) :
                                  /\ log[j].op = "write"
                                  /\ log[j].ok
                                  /\ log[j].page = last.page
                                  /\ log[j].dst
                                       = Cache(ToString(page_list[last.page].p) \o ".html")
             /\ last.page = 0 /\ k > 1
                   => \/ log[k - 1].page = 0
                      \/ log[k - 1].page = Len(page_list)
                      \/ ~last.ok
             /\ last.op = "archive"
                   => /\ Before(k, "write", Cache("metadata.opf"))
                      /\ Before(k, "write", Cache("mimetype"))
                      /\ Before(k, "write", Cache("stylesheet.css"))
                      /\ Before(k, "write", Cache("toc.ncx"))
                      /\ Before(k, "write", << "manga_res", this.section.name, ".cache",
                                               "META-INF", "container.xml" >>)
                      /\ \A n \in DOMAIN page_list :
                            Before(k, "copy", Cache(ToString(page_list[n].p) \o "."
                                                      \o page_list[n].extension))
    /\ (pc = "returned" /\ result.ok)
          => /\ log # <<>>
             /\ log[Len(log)].op = "archive"
             /\ log[Len(log)].ok

C8_Witness ==
    /\ pc = "returned"
    /\ result.ok
    /\ Len(page_list) >= 2
    /\ page_list[1].p # 0

\* C9: when a directory creation, file creation, write or copy of save fails,
\* that call is the last one save makes and save has returned the error as a
\* FilesystemFailure: nothing runs after it, the archiver is not invoked, and
\* what the earlier calls created is still in the file system.
C9_FailureReturnsAtOnce ==
    /\ \A k \in 1..(Len(log) - 1) : log[k].ok
    /\ (log # <<>> /\ IsFsCall(log[Len(log)]) /\ ~log[Len(log)].ok)
          => /\ pc = "returned"
             /\ ~result.ok
             /\ result.kind = "FilesystemFailure"
             /\ \A j \in 1..(Len(log) - 1) :
                   /\ log[j].op # "archive"
                   /\ log[j].op \in {"create", "write", "copy"}
                         => log[j].dst \in DOMAIN fs.files
                   /\ (/\ log[j].op = "write"
                       /\ \A n \in (j + 1)..Len(log) : log[n].dst # log[j].dst)
                         => fs.files[log[j].dst].kind # "empty"
                   /\ log[j].op = "create_dir_all" => log[j].dst \in fs.dirs

C9_Witness ==
    /\ pc = "returned"
    /\ ~prev.valid
    /\ Len(log) > 8
    /\ ~log[Len(log)].ok
    /\ log[Len(log)].op = "copy"

NavigationListsPages(d, pl) ==
    /\ Len(d.navMap) = Len(pl) + 1
    /\ d.navMap[1].src = "start.xhtml"
    /\ d.navMap[1].playOrder = "0"
    /\ \A k \in DOMAIN pl :
          /\ d.navMap[k + 1].label = ToString(pl[k].p) \o "P"
          /\ d.navMap[k + 1].playOrder = ToString(pl[k].p)
          /\ d.navMap[k + 1].src = ToString(pl[k].p) \o ".html"

\* C10: the navigation document render_toc_ncx renders (for any session, and as
\* save wrote it to toc.ncx) is a root navigation point for start.xhtml with
\* play order 0 followed by one navigation point per page in page_list order,
\* with label {index}P, play order {index} and target {index}.html.
C10_NavigationListsEveryPage ==
    /\ \A k \in DOMAIN sessions :
          NavigationListsPages(render_toc_ncx(sessions[k]),
                               sessions[k].section.page_list)
    /\ OnDisk(Cache("toc.ncx"), "ncx")
          => NavigationListsPages(fs.files[Cache("toc.ncx")], page_list)

C10_Witness ==
    /\ OnDisk(Cache("toc.ncx"), "ncx")
    /\ Len(page_list) >= 2
    /\ page_list[1].p > page_list[2].p

====
